---- MODULE Spec2Model ----
(***************************************************************************)
(* The git plugin: one repository, configured by parse, validated by       *)
(* Repo.Prepare, started by setup's startup function (Start, then the      *)
(* eager Repo.Pull), then pulled by the service routine's ticks and by     *)
(* manual callers.  Every external git command is a state of the calling   *)
(* goroutine: the goroutine sits at the command while it is in flight and  *)
(* the step that leaves it carries the command's outcome.  r.Lock() is the *)
(* step that enters Pull: it can be taken only while the lock is free.     *)
(*                                                                         *)
(* Spec follows a repository from parse to its Pulls, SpecLive the same    *)
(* under fairness, SpecParse parse's checks and Prepare on every state of  *)
(* the path, SpecConfig parse's reading of a configuration block.          *)
(*                                                                         *)
(* Strings are sequences of tokens: "" is << >>, a commit hash is <<c>>,   *)
(* a tag name is <<t>>, a URL is a sequence such as <<"a", ".git">>.       *)
(***************************************************************************)
EXTENDS Integers, Sequences, FiniteSets, TLC

VARIABLES
    URL,        \* Repo.URL as configured
    Path,       \* Repo.Path as configured ("" when no path and no root)
    Branch,     \* Repo.Branch
    fs,         \* what the file system holds at Repo.Path
    r,          \* Repo's recorded state: pulled, lastPull, lastCommit, latestTag
    mutex,      \* Repo's sync.Mutex: the goroutine holding it, or NoOne
    git,        \* the Git list parse returned: << >>, or its one repository
    parseErr,   \* whether parse returned an error
    spc,        \* where setup and the startup function are
    service,    \* whether Start(repo) has started the service routine
    startupErr, \* what the startup function returned: "none", "nil", "err"
    th,         \* per goroutine calling Pull: its position and locals
    co,         \* the goroutine calling checkoutCommit
    now,        \* the clock, in seconds, read once per debounce window
    remoteHead, \* the remote branch's tip commit
    remoteTag,  \* the remote's latest tag (0: the remote has no tags)
    localTag,   \* the latest tag the working copy knows of
    wcHead,     \* the commit the working copy has checked out (0: none)
    prepares,   \* how many times Prepare has run
    block,      \* the configuration block parse reads, and the server's root
    fs0,        \* what the file system held at Repo.Path before parse
    justOK,     \* a Pull call ran its attempts and returned nil, all at this instant
    tagSteady   \* the latest Pull call that ran its attempts returned nil, and the
                \* remote's latest tag is the one it was when that call took the lock

config  == <<URL, Path, Branch, fs0, block>>
startup == <<git, parseErr, spc, service, startupErr, prepares>>
remote  == <<remoteHead, remoteTag>>
copy    == <<fs, localTag, wcHead>>
repo    == <<r, mutex>>
seen    == <<justOK, tagSteady>>

vars == <<config, startup, remote, copy, repo, seen, th, co, now>>

----------------------------------------------------------------------------
(* Bounds *)

MaxTime == 1      \* the clock runs for this many debounce windows
MaxCommit == 2    \* the remote gets commits 1..MaxCommit, and as many tags
MaxDirectives == 3 \* a configuration block has at most this many directives

(* Program constants *)

numRetries == 3
DefaultInterval == 3600
DebounceWindow == 5
ZeroTime == -1
latestTag == "{latest}"
DefaultBranch == "master"

NoOne == "none"
PullProcs == {"eager", "tick", "manual"}
Cmds == {"clone", "pull", "log", "fetch", "describe", "checkout"}

EmptyString == << >>
Hash(c) == <<c>>
TagName(t) == <<t>>

URLs == {<< >>, <<"a">>, <<"a", ".git">>, <<".git">>}
Origins == {<< >>, <<"a">>, <<"a", ".git">>, <<"b">>}
Paths == {"", "/p"}
Branches == {DefaultBranch, latestTag}

(* fs.kind: "absent" (nothing at the path), "blocked" (nothing at the path *)
(* and a regular file where a parent directory would be), "empty" (an      *)
(* empty directory), "nongit" (a non-empty directory with no .git          *)
(* directory), "git" (a directory with a .git directory; fs.origin is its  *)
(* remote.origin.url, << >> when it has none).                             *)
FsStates ==
    {[kind |-> k, origin |-> << >>] : k \in {"absent", "blocked", "empty", "nongit"}}
    \cup {[kind |-> "git", origin |-> o] : o \in Origins}

----------------------------------------------------------------------------
(* commands.go *)

\* runCmdOutput as it would be with the command's error returned
runCmdOutputErr(ok, output) ==
    [out |-> IF ok THEN output ELSE EmptyString, err |-> ~ok]

\* runCmdOutput: the inner `output, err :=` shadows the outer err, so a
\* failed command yields "" and the outer, still nil, err.
runCmdOutput(ok, output) ==
    [out |-> IF ok THEN output ELSE EmptyString, err |-> FALSE]

----------------------------------------------------------------------------
(* Repo.Prepare and parse *)

\* strings.TrimSuffix that trims nothing
TrimSuffixNone(s, suffix) == s

\* strings.TrimSuffix, for a suffix of one token
TrimSuffix(s, suffix) ==
    IF Len(s) >= 1 /\ s[Len(s)] = suffix THEN SubSeq(s, 1, Len(s) - 1) ELSE s

\* ioutil.ReadDir(r.Path): an error when there is no directory at the path
ReadDirErr(f) == f.kind \in {"absent", "blocked"}

\* os.MkdirAll that creates nothing
MkdirAllNoCreate(f) == [err |-> f.kind = "blocked", fs |-> f]

\* os.MkdirAll(r.Path, 0755): creates the directory, nil when it exists,
\* an error when a parent is not a directory
MkdirAll(f) ==
    [err |-> f.kind = "blocked",
     fs  |-> IF f.kind = "absent" THEN [kind |-> "empty", origin |-> << >>] ELSE f]

originURL(f) ==
    IF ReadDirErr(f)
    THEN [out |-> EmptyString, err |-> TRUE]
    ELSE runCmdOutput(f.kind = "git" /\ f.origin # << >>, f.origin)

\* Prepare: the error it returns, the pulled flag and the file system after
Prepare(url, f, pulled) ==
    IF ReadDirErr(f) \/ f.kind = "empty"
    THEN [err |-> MkdirAll(f).err, fs |-> MkdirAll(f).fs, pulled |-> pulled]
    ELSE IF f.kind = "git"
         THEN LET o == originURL(f)
              IN  IF ~o.err /\ TrimSuffix(o.out, ".git") = TrimSuffix(url, ".git")
                  THEN [err |-> FALSE, fs |-> f, pulled |-> TRUE]
                  ELSE [err |-> TRUE, fs |-> f, pulled |-> pulled]
         ELSE [err |-> TRUE, fs |-> f, pulled |-> pulled]

\* parse, for one configuration block: whether Prepare is reached, and the
\* result
parseReachesPrepare(url, path) == url # EmptyString /\ path # ""

\* parse that appends the repository whatever Prepare returned
parseIgnoresPrepare(url, path, f, pulled) ==
    IF ~parseReachesPrepare(url, path)
    THEN [err |-> TRUE, fs |-> f, pulled |-> pulled, n |-> 0]
    ELSE LET p == Prepare(url, f, pulled)
         IN  [err |-> FALSE, fs |-> p.fs, pulled |-> p.pulled, n |-> 1]

parse(url, path, f, pulled) ==
    IF ~parseReachesPrepare(url, path)
    THEN [err |-> TRUE, fs |-> f, pulled |-> pulled, n |-> 0]
    ELSE LET p == Prepare(url, f, pulled)
         IN  [err |-> p.err, fs |-> p.fs, pulled |-> p.pulled, n |-> 1]

----------------------------------------------------------------------------
(* parse: reading the configuration block (setup.go)                       *)
(*                                                                         *)
(* A path string is [abs, segs]: whether it starts with "/", and what      *)
(* stands between its slashes ("" between two adjacent slashes or after a  *)
(* trailing one).  A numeral is a sequence of characters.                  *)

PathStr(abs, segs) == [abs |-> abs, segs |-> segs]

\* the empty path string
NoPath == PathStr(FALSE, << >>)

\* filepath.Clean, segment by segment: "" and "." are dropped, ".." takes
\* back the segment before it, is dropped at the root and kept otherwise
RECURSIVE CleanSegs(_, _, _)
CleanSegs(abs, segs, out) ==
    IF segs = << >> THEN out
    ELSE LET seg  == Head(segs)
             rest == Tail(segs)
         IN  IF seg = "" \/ seg = "." THEN CleanSegs(abs, rest, out)
             ELSE IF seg # ".." THEN CleanSegs(abs, rest, Append(out, seg))
             ELSE IF out # << >> /\ out[Len(out)] # ".."
                  THEN CleanSegs(abs, rest, SubSeq(out, 1, Len(out) - 1))
             ELSE IF abs THEN CleanSegs(abs, rest, out)
             ELSE CleanSegs(abs, rest, Append(out, ".."))

\* filepath.Clean: a relative path that cleans to nothing is "."
Clean(p) ==
    LET out == CleanSegs(p.abs, p.segs, << >>)
    IN  IF ~p.abs /\ out = << >> THEN PathStr(FALSE, <<".">>) ELSE PathStr(p.abs, out)

IsAbs(p) == p.abs

\* filepath.Join of two elements: empty elements are left out, the rest is
\* joined by a slash and cleaned; "" when both are empty
Join(a, b) ==
    IF a = NoPath /\ b = NoPath THEN NoPath
    ELSE IF a = NoPath THEN Clean(b)
    ELSE IF b = NoPath THEN Clean(a)
    ELSE Clean(PathStr(a.abs, a.segs \o b.segs))

\* clonePath that puts every path under the root
clonePathUnderRoot(root, path) == Join(root, path)

\* parse's clonePath
clonePath(root, path) == IF IsAbs(path) THEN Clean(path) ELSE Join(root, path)

Digit == <<"0", "1", "2", "3", "4", "5", "6", "7", "8", "9">>

IsDigit(c) == \E d \in 1..Len(Digit) : Digit[d] = c

DigitVal(c) == (CHOOSE d \in 1..Len(Digit) : Digit[d] = c) - 1

RECURSIVE DigitsVal(_, _)
DigitsVal(cs, acc) ==
    IF cs = << >> THEN acc ELSE DigitsVal(Tail(cs), 10 * acc + DigitVal(Head(cs)))

\* strconv.Atoi: an optional sign and then digits, at least one; 0 and an
\* error for anything else
Atoi(cs) ==
    LET signed == cs # << >> /\ Head(cs) \in {"+", "-"}
        ds     == IF signed THEN Tail(cs) ELSE cs
    IN  IF ds = << >> \/ \E k \in 1..Len(ds) : ~IsDigit(ds[k])
        THEN [n |-> 0, err |-> TRUE]
        ELSE [n |-> IF signed /\ Head(cs) = "-" THEN 0 - DigitsVal(ds, 0)
                    ELSE DigitsVal(ds, 0),
              err |-> FALSE]

\* repo := &Repo{Branch: "master", Interval: DefaultInterval, Path: config.Root}
NewRepo(root) ==
    [URL |-> EmptyString, Path |-> root, Branch |-> DefaultBranch,
     Interval |-> DefaultInterval, CloneArgs |-> << >>, PullArgs |-> << >>]

\* the arguments on the plugin's line: the URL, and the path when there are two
parseArgs(rp, root, args) ==
    IF Len(args) = 2
    THEN [rp EXCEPT !.Path = clonePath(root, args[2]), !.URL = args[1]]
    ELSE IF Len(args) = 1 THEN [rp EXCEPT !.URL = args[1]]
    ELSE rp

\* one directive of the block
parseDirective(rp, root, d) ==
    IF d.name \in {"repo", "path", "branch", "interval"} /\ d.vals = << >>
    THEN [err |-> TRUE, repo |-> rp]
    ELSE IF d.name = "repo"
    THEN [err |-> FALSE, repo |-> [rp EXCEPT !.URL = d.vals[1]]]
    ELSE IF d.name = "path"
    THEN [err |-> FALSE, repo |-> [rp EXCEPT !.Path = clonePath(root, d.vals[1])]]
    ELSE IF d.name = "branch"
    THEN [err |-> FALSE, repo |-> [rp EXCEPT !.Branch = d.vals[1]]]
    ELSE IF d.name = "interval"
    THEN LET t == Atoi(d.vals[1]).n
         IN  [err |-> FALSE,
              repo |-> IF t > 0 THEN [rp EXCEPT !.Interval = t] ELSE rp]
    ELSE IF d.name = "args"
    THEN [err |-> FALSE, repo |-> [rp EXCEPT !.CloneArgs = d.vals]]
    ELSE IF d.name = "pull_args"
    THEN [err |-> FALSE, repo |-> [rp EXCEPT !.PullArgs = d.vals]]
    ELSE [err |-> TRUE, repo |-> rp]

\* for c.NextBlock(): the directives in order, up to the first that is refused
RECURSIVE parseDirectives(_, _, _)
parseDirectives(rp, root, dirs) ==
    IF dirs = << >> THEN [err |-> FALSE, repo |-> rp]
    ELSE LET d == parseDirective(rp, root, Head(dirs))
         IN  IF d.err THEN d ELSE parseDirectives(d.repo, root, Tail(dirs))

\* the repository parse builds from the block, before the URL and the
\* path are looked at
parseBlock(b) == parseDirectives(parseArgs(NewRepo(b.root), b.root, b.args), b.root, b.dirs)

\* the path as Prepare's caller tests it: set or not
PathText(p) == IF p = NoPath THEN "" ELSE "/p"

\* the blocks parse is given
PathInputs ==
    { PathStr(TRUE, <<"tmp", "git1">>),
      PathStr(TRUE, <<"tmp", ".", "x", "..", "", "git1", "">>),
      PathStr(FALSE, <<"git1">>) }

IntervalInputs == { <<"6", "0">>, <<"0">>, <<"-", "5">>, <<"x">>, <<"1", "h">> }

Directives ==
    {[name |-> "path", vals |-> <<p>>] : p \in PathInputs}
    \cup {[name |-> "interval", vals |-> <<v>>] : v \in IntervalInputs}
    \cup { [name |-> "args", vals |-> <<"--depth", "1">>],
           [name |-> "branch", vals |-> <<"dev">>],
           [name |-> "path", vals |-> << >>],
           [name |-> "bogus", vals |-> << >>] }

RECURSIVE SeqsUpTo(_, _)
SeqsUpTo(S, n) ==
    IF n = 0 THEN {<< >>}
    ELSE LET shorter == SeqsUpTo(S, n - 1)
         IN  shorter \cup {Append(q, x) : q \in shorter, x \in S}

Blocks ==
    [root : {NoPath, PathStr(TRUE, <<"r">>)},
     args : {<< >>, <<<<"a">>>>},
     dirs : SeqsUpTo(Directives, MaxDirectives)]

\* the block of a configuration whose reading is not followed
NoBlock == [root |-> NoPath, args |-> << >>, dirs |-> << >>]

----------------------------------------------------------------------------
(* Repo.Pull and what it calls *)

tagMode == Branch = latestTag

\* a goroutine that is not in Pull.  Its locals: i (the loop counter), fn
\* (the function that issued the command in flight), err (Pull's err: what
\* the latest attempt returned), inClone (clone() is on the stack), cloneErr (clone()'s err), tag (checkoutLatestTag's tag), res
\* (what Pull returns); and what the call has seen: snap (the recorded
\* state when it took the lock), cmds (the commands it has issued), afterOK
\* (it took the lock at the instant at which the latest call that ran its
\* attempts took the lock and returned nil), steady (the remote's latest
\* tag has not changed since it took the lock), instant (the clock has not
\* advanced since it took the lock).
Idle == [pc |-> "idle", i |-> 0, fn |-> "", err |-> FALSE, inClone |-> FALSE, cloneErr |-> FALSE,
         tag |-> EmptyString, res |-> "none", snap |-> << >>, cmds |-> {},
         afterOK |-> FALSE, steady |-> FALSE, instant |-> FALSE]

Snapshot(rr) == <<rr.pulled, rr.lastPull, rr.lastCommit, rr.latestTag>>

\* the debounce test taking the zero time for a time just past
DebouncedFromZero(rr, t) == t - rr.lastPull < DebounceWindow

\* time.Since(r.lastPull) < 5*time.Second; the zero time is long ago
Debounced(rr, t) == rr.lastPull # ZeroTime /\ t - rr.lastPull < DebounceWindow

\* function fn issues a command: the goroutine moves to it
Issue(t, fn, cmd) == [t EXCEPT !.pc = cmd, !.fn = fn, !.cmds = @ \cup {cmd}]

\* pull() that clones again when the working copy has no tag checked out
pullClonesAgain(t, rr) ==
    IF ~rr.pulled \/ (tagMode /\ rr.latestTag = EmptyString)
    THEN Issue([t EXCEPT !.inClone = TRUE, !.cloneErr = FALSE], "clone", "clone")
    ELSE IF tagMode
         THEN Issue([t EXCEPT !.inClone = FALSE], "checkoutLatestTag", "fetch")
         ELSE Issue([t EXCEPT !.inClone = FALSE], "pull", "pull")

\* pull(): clone when not pulled, the latest tag in tag mode, else git pull
pull(t, rr) ==
    IF ~rr.pulled
    THEN Issue([t EXCEPT !.inClone = TRUE, !.cloneErr = FALSE], "clone", "clone")
    ELSE IF tagMode
         THEN Issue([t EXCEPT !.inClone = FALSE], "checkoutLatestTag", "fetch")
         ELSE Issue([t EXCEPT !.inClone = FALSE], "pull", "pull")

\* Pull's loop without the break: all numRetries attempts are made
AttemptReturnsNoBreak(t, rr, err) ==
    IF t.i + 1 < numRetries THEN pull([t EXCEPT !.err = err, !.i = @ + 1], rr)
    ELSE [t EXCEPT !.err = err, !.pc = "ret", !.res = IF err THEN "err" ELSE "nil"]

\* Pull's loop: an attempt has returned err.  nil ends the loop and Pull
\* returns nil; an error is retried up to numRetries attempts, and the last
\* one's error is what Pull returns
AttemptReturns(t, rr, err) ==
    IF ~err THEN [t EXCEPT !.err = FALSE, !.pc = "ret", !.res = "nil"]
    ELSE IF t.i + 1 < numRetries THEN pull([t EXCEPT !.err = TRUE, !.i = @ + 1], rr)
    ELSE [t EXCEPT !.err = TRUE, !.pc = "ret", !.res = "err"]

\* checkoutLatestTag has returned err: pull() returns it, clone() logs it
\* and returns its own err
checkoutLatestTagReturns(t, rr, err) ==
    IF t.inClone THEN AttemptReturns(t, rr, t.cloneErr)
    ELSE AttemptReturns(t, rr, err)

\* r.Lock() that lets every caller in
MutexFreeAlways == TRUE

\* r.Lock() lets the caller in when no goroutine holds the lock
MutexFree == mutex = NoOne

----------------------------------------------------------------------------
InitRest ==
    /\ fs0 = fs
    /\ r = [pulled |-> FALSE, lastPull |-> ZeroTime, lastCommit |-> EmptyString,
            latestTag |-> EmptyString]
    /\ mutex = NoOne
    /\ git = << >>
    /\ parseErr = FALSE
    /\ spc = "init"
    /\ service = FALSE
    /\ startupErr = "none"
    /\ th = [p \in PullProcs |-> Idle]
    /\ co = "idle"
    /\ now = 0
    /\ remoteHead = 1
    /\ remoteTag = 0
    /\ localTag = 0
    /\ wcHead = 0
    /\ prepares = 0
    /\ justOK = FALSE
    /\ tagSteady = FALSE

\* the configurations the program is run on: one repository at URL "a",
\* and what parse refuses
Init ==
    /\ block = NoBlock
    /\ URL \in {<< >>, <<"a">>}
    /\ Path \in Paths
    /\ Branch \in Branches
    /\ fs \in {f \in FsStates : f.kind # "absent" /\ f.origin # <<"a">>}
    /\ (URL = << >> \/ Path = "") => fs.kind = "empty"
    /\ InitRest

\* every configuration and every state of the path, for parse alone
InitParse ==
    /\ block = NoBlock
    /\ URL \in URLs
    /\ Path \in Paths
    /\ Branch \in Branches
    /\ fs \in FsStates
    /\ InitRest

\* every block, read at a path that is empty or holds other content
InitConfig ==
    /\ block \in Blocks
    /\ URL = EmptyString
    /\ Path = ""
    /\ Branch = DefaultBranch
    /\ fs \in {f \in FsStates : f.kind \in {"empty", "nongit"}}
    /\ InitRest

(* setup.go *)

\* parse reads the block: the repository it builds is checked and
\* prepared, and is the list parse returns
ParseBlock ==
    /\ spc = "init"
    /\ LET b == parseBlock(block)
           g == parse(b.repo.URL, PathText(b.repo.Path), fs, r.pulled)
       IN  IF b.err
           THEN /\ parseErr' = TRUE
                /\ git' = << >>
                /\ spc' = "failed"
                /\ UNCHANGED <<fs, r, prepares>>
           ELSE /\ parseErr' = g.err
                /\ git' = IF g.err THEN << >> ELSE <<b.repo>>
                /\ fs' = g.fs
                /\ r' = [r EXCEPT !.pulled = g.pulled]
                /\ prepares' = prepares + g.n
                /\ spc' = IF g.err THEN "failed" ELSE "registered"
    /\ UNCHANGED <<config, service, startupErr, remote, localTag, wcHead, mutex, seen,
                   th, co, now>>


\* setup: parse, and on success the startup function is registered
Setup ==
    /\ spc = "init"
    /\ LET g == parse(URL, Path, fs, r.pulled)
       IN  /\ parseErr' = g.err
           /\ git' = IF g.err THEN << >> ELSE <<1>>
           /\ fs' = g.fs
           /\ r' = [r EXCEPT !.pulled = g.pulled]
           /\ prepares' = prepares + g.n
           /\ spc' = IF g.err THEN "failed" ELSE "registered"
    /\ UNCHANGED <<config, service, startupErr, remote, localTag, wcHead, mutex, seen,
                   th, co, now>>

\* Start(repo): the service routine is started
Start == service' = TRUE

(* Repo.Pull *)

\* goroutine p calls repo.Pull(): r.Lock() lets it in when the lock is free;
\* it returns nil when debounced, else keeps the last commit and makes the
\* first attempt
PullLock(p) ==
    /\ th[p].pc = "idle"
    /\ MutexFree
    /\ mutex' = p
    /\ LET t == [th[p] EXCEPT !.snap = Snapshot(r), !.afterOK = justOK,
                              !.steady = TRUE, !.instant = TRUE]
       IN  th' = [th EXCEPT ![p] = IF Debounced(r, now)
                                   THEN [t EXCEPT !.pc = "ret", !.res = "nil"]
                                   ELSE pull(t, r)]
    /\ UNCHANGED <<config, remote, copy, r, seen, co, now>>

\* the startup function: first Start(repo) ...
StartupStart ==
    /\ spc = "registered"
    /\ Start
    /\ spc' = "started"
    /\ UNCHANGED <<config, git, parseErr, startupErr, prepares, remote, copy, repo,
                   seen, th, co, now>>

\* the startup function calling repo.Pull() before Start(repo)
StartupPullBeforeStart ==
    /\ spc = "registered"
    /\ spc' = "pulling"
    /\ PullLock("eager")
    /\ UNCHANGED <<git, parseErr, service, startupErr, prepares>>

\* ... then repo.Pull() ...
StartupPull ==
    /\ spc = "started"
    /\ spc' = "pulling"
    /\ PullLock("eager")
    /\ UNCHANGED <<git, parseErr, service, startupErr, prepares>>

\* ... whose result it returns
StartupReturn ==
    /\ spc = "pulling"
    /\ th["eager"].pc = "done"
    /\ startupErr' = th["eager"].res
    /\ spc' = "returned"
    /\ UNCHANGED <<config, git, parseErr, service, prepares, remote, copy, repo, seen,
                   th, co, now>>

\* the service routine's ticker fires: it calls repo.Pull()
ServiceTick ==
    /\ service
    /\ PullLock("tick")
    /\ UNCHANGED startup

\* any other holder of the repository calls repo.Pull()
ManualPull ==
    /\ git # << >>
    /\ PullLock("manual")
    /\ UNCHANGED startup

\* git clone ends
CloneDone(p) ==
    /\ th[p].pc = "clone"
    /\ \E ok \in BOOLEAN :
         /\ ok => fs.kind = "empty"
         /\ IF ok
            THEN /\ r' = [r EXCEPT !.pulled = TRUE, !.lastPull = now]
                 /\ fs' = [kind |-> "git", origin |-> URL]
                 /\ wcHead' = remoteHead
                 /\ localTag' = remoteTag
                 /\ th' = [th EXCEPT ![p] = Issue(@, "clone", "log")]
            ELSE /\ th' = [th EXCEPT ![p] = AttemptReturns(@, r, TRUE)]
                 /\ UNCHANGED <<r, fs, wcHead, localTag>>
    /\ UNCHANGED <<config, startup, remote, mutex, seen, co, now>>

\* git pull that stamps lastPull whether or not it succeeded
GitPullDoneStamps(p) ==
    /\ th[p].pc = "pull"
    /\ \E ok \in BOOLEAN :
         /\ ok => fs.kind = "git"
         /\ IF ok
            THEN /\ r' = [r EXCEPT !.pulled = TRUE, !.lastPull = now]
                 /\ wcHead' = remoteHead
                 /\ th' = [th EXCEPT ![p] = Issue(@, "pull", "log")]
            ELSE /\ r' = [r EXCEPT !.lastPull = now]
                 /\ th' = [th EXCEPT ![p] = AttemptReturns(@, r, TRUE)]
                 /\ UNCHANGED wcHead
    /\ UNCHANGED <<config, startup, remote, fs, localTag, mutex, seen, co, now>>

\* git pull ends
GitPullDone(p) ==
    /\ th[p].pc = "pull"
    /\ \E ok \in BOOLEAN :
         /\ ok => fs.kind = "git"
         /\ IF ok
            THEN /\ r' = [r EXCEPT !.pulled = TRUE, !.lastPull = now]
                 /\ wcHead' = remoteHead
                 /\ th' = [th EXCEPT ![p] = Issue(@, "pull", "log")]
            ELSE /\ th' = [th EXCEPT ![p] = AttemptReturns(@, r, TRUE)]
                 /\ UNCHANGED <<r, wcHead>>
    /\ UNCHANGED <<config, startup, remote, fs, localTag, mutex, seen, co, now>>

\* mostRecentCommit: git log ends; the caller goes on
LogDone(p) ==
    /\ th[p].pc = "log"
    /\ \E ok \in BOOLEAN :
         /\ ok => (fs.kind = "git" /\ wcHead # 0)
         /\ LET rc == runCmdOutput(ok, Hash(wcHead))
                rr == [r EXCEPT !.lastCommit = rc.out]
                t  == th[p]
            IN  /\ r' = rr
                /\ th' = [th EXCEPT ![p] =
                       IF t.fn = "checkoutLatestTag"
                       THEN checkoutLatestTagReturns(t, rr, FALSE)
                       ELSE IF t.fn = "clone" /\ tagMode
                       THEN Issue([t EXCEPT !.cloneErr = rc.err],
                                  "checkoutLatestTag", "fetch")
                       ELSE AttemptReturns(t, rr, rc.err)]
    /\ UNCHANGED <<config, startup, remote, copy, mutex, seen, co, now>>

\* fetchLatestTag: git fetch origin --tags ends
FetchDone(p) ==
    /\ th[p].pc = "fetch"
    /\ \E ok \in BOOLEAN :
         /\ ok => fs.kind = "git"
         /\ IF ok
            THEN /\ localTag' = remoteTag
                 /\ th' = [th EXCEPT ![p] = Issue(@, "checkoutLatestTag", "describe")]
            ELSE /\ th' = [th EXCEPT ![p] = checkoutLatestTagReturns(@, r, TRUE)]
                 /\ UNCHANGED localTag
    /\ UNCHANGED <<config, startup, remote, fs, wcHead, repo, seen, co, now>>

\* fetchLatestTag: git describe ends; checkoutLatestTag compares the tag
DescribeDone(p) ==
    /\ th[p].pc = "describe"
    /\ \E ok \in BOOLEAN :
         /\ ok => (fs.kind = "git" /\ localTag # 0)
         /\ LET rc == runCmdOutput(ok, TagName(localTag))
                t  == th[p]
            IN  th' = [th EXCEPT ![p] =
                    IF rc.err THEN checkoutLatestTagReturns(t, r, TRUE)
                    ELSE IF rc.out = EmptyString THEN checkoutLatestTagReturns(t, r, TRUE)
                    ELSE IF rc.out = r.latestTag THEN checkoutLatestTagReturns(t, r, FALSE)
                    ELSE Issue([t EXCEPT !.tag = rc.out], "checkoutLatestTag", "checkout")]
    /\ UNCHANGED <<config, startup, remote, copy, repo, seen, co, now>>

\* checkoutLatestTag: git checkout tags/<tag> ends
CheckoutDone(p) ==
    /\ th[p].pc = "checkout"
    /\ \E ok \in BOOLEAN :
         /\ ok => fs.kind = "git"
         /\ IF ok
            THEN /\ r' = [r EXCEPT !.latestTag = th[p].tag]
                 /\ wcHead' = th[p].tag[1]
                 /\ th' = [th EXCEPT ![p] = Issue(@, "checkoutLatestTag", "log")]
            ELSE /\ th' = [th EXCEPT ![p] = checkoutLatestTagReturns(@, r, TRUE)]
                 /\ UNCHANGED <<r, wcHead>>
    /\ UNCHANGED <<config, startup, remote, fs, localTag, mutex, seen, co, now>>

\* Pull whose r.Unlock() is skipped when it returns an error
PullReturnKeepsLockOnError(p) ==
    /\ th[p].pc = "ret"
    /\ mutex' = IF th[p].res = "err" THEN mutex ELSE NoOne
    /\ justOK' = IF th[p].cmds = {} THEN justOK
                 ELSE th[p].res = "nil" /\ th[p].instant
    /\ tagSteady' = IF th[p].cmds = {} THEN tagSteady
                    ELSE th[p].res = "nil" /\ th[p].steady
    /\ th' = [th EXCEPT ![p] = IF p = "eager"
                                THEN [Idle EXCEPT !.pc = "done", !.res = th[p].res]
                                ELSE Idle]
    /\ UNCHANGED <<config, startup, remote, copy, r, co, now>>

\* Pull returns and the deferred r.Unlock() runs
PullReturn(p) ==
    /\ th[p].pc = "ret"
    /\ mutex' = NoOne
    /\ justOK' = IF th[p].cmds = {} THEN justOK
                 ELSE th[p].res = "nil" /\ th[p].instant
    /\ tagSteady' = IF th[p].cmds = {} THEN tagSteady
                    ELSE th[p].res = "nil" /\ th[p].steady
    /\ th' = [th EXCEPT ![p] = IF p = "eager"
                                THEN [Idle EXCEPT !.pc = "done", !.res = th[p].res]
                                ELSE Idle]
    /\ UNCHANGED <<config, startup, remote, copy, r, co, now>>

(* Repo.checkoutCommit *)

CheckoutCommitCalled ==
    /\ git # << >>
    /\ co = "idle"
    /\ co' = "checkout"
    /\ UNCHANGED <<config, startup, remote, copy, repo, seen, th, now>>

CheckoutCommitDone ==
    /\ co = "checkout"
    /\ \E ok \in BOOLEAN, commitHash \in 1..MaxCommit :
         /\ ok => fs.kind = "git"
         /\ wcHead' = IF ok THEN commitHash ELSE wcHead
    /\ co' = "idle"
    /\ UNCHANGED <<config, startup, remote, fs, localTag, repo, seen, th, now>>

(* The environment *)

\* the clock is read once per debounce window: two readings are the same
\* instant or at least a window apart
Tick ==
    /\ now < MaxTime * DebounceWindow
    /\ now' = now + DebounceWindow
    /\ justOK' = FALSE
    /\ th' = [p \in PullProcs |-> [th[p] EXCEPT !.instant = FALSE]]
    /\ UNCHANGED <<config, startup, remote, copy, repo, tagSteady, co>>

\* a commit is pushed to the branch of a repository tracked by branch
RemotePush ==
    /\ ~tagMode
    /\ remoteHead < MaxCommit
    /\ remoteHead' = remoteHead + 1
    /\ UNCHANGED <<config, startup, remoteTag, copy, repo, seen, th, co, now>>

\* a tag is pushed to a repository tracked by tag: tag t names commit t
RemoteTagPush ==
    /\ tagMode
    /\ remoteTag < MaxCommit
    /\ remoteTag' = remoteTag + 1
    /\ tagSteady' = FALSE
    /\ th' = [p \in PullProcs |-> [th[p] EXCEPT !.steady = FALSE]]
    /\ UNCHANGED <<config, startup, remoteHead, copy, repo, justOK, co, now>>

Next ==
    \/ Setup
    \/ StartupStart
    \/ StartupPull
    \/ StartupReturn
    \/ ServiceTick
    \/ ManualPull
    \/ \E p \in PullProcs : CloneDone(p)
    \/ \E p \in PullProcs : GitPullDone(p)
    \/ \E p \in PullProcs : LogDone(p)
    \/ \E p \in PullProcs : FetchDone(p)
    \/ \E p \in PullProcs : DescribeDone(p)
    \/ \E p \in PullProcs : CheckoutDone(p)
    \/ \E p \in PullProcs : PullReturn(p)
    \/ CheckoutCommitCalled
    \/ CheckoutCommitDone
    \/ Tick
    \/ RemotePush
    \/ RemoteTagPush

Spec == Init /\ [][Next]_vars

\* the startup function and the service routine, the two callers of Pull
\* that setup brings about, with the clock and the remote
NextLive ==
    \/ Setup
    \/ StartupStart
    \/ StartupPull
    \/ StartupReturn
    \/ ServiceTick
    \/ \E p \in PullProcs : CloneDone(p)
    \/ \E p \in PullProcs : GitPullDone(p)
    \/ \E p \in PullProcs : LogDone(p)
    \/ \E p \in PullProcs : FetchDone(p)
    \/ \E p \in PullProcs : DescribeDone(p)
    \/ \E p \in PullProcs : CheckoutDone(p)
    \/ \E p \in PullProcs : PullReturn(p)
    \/ Tick
    \/ RemotePush
    \/ RemoteTagPush

\* every external command ends, a goroutine that can return does, and
\* sync.Mutex does not starve the startup function's Lock()
Fairness ==
    /\ \A p \in PullProcs :
          /\ WF_vars(CloneDone(p))
          /\ WF_vars(GitPullDone(p))
          /\ WF_vars(LogDone(p))
          /\ WF_vars(FetchDone(p))
          /\ WF_vars(DescribeDone(p))
          /\ WF_vars(CheckoutDone(p))
          /\ WF_vars(PullReturn(p))
    /\ SF_vars(StartupPull)

SpecLive == Init /\ [][NextLive]_vars /\ Fairness

SpecParse == InitParse /\ [][Setup]_vars

SpecConfig == InitConfig /\ [][ParseBlock]_vars

----------------------------------------------------------------------------
(* What the claims speak of *)

\* goroutine p has an external command in flight
Running(p) == th[p].pc \in Cmds

\* goroutine p is in Pull
InPull(p) == th[p].pc \in Cmds \cup {"ret"}

\* goroutine p is at Pull's return, the lock still held
Returning(p) == th[p].pc = "ret"

\* the call goroutine p is in got past the debounce and made attempts
Ran(p) == th[p].cmds # {}

\* parse has returned
Parsed == spc # "init"

\* s with one trailing ".git" removed
WithoutDotGit(s) ==
    IF s # << >> /\ s[Len(s)] = ".git" THEN SubSeq(s, 1, Len(s) - 1) ELSE s

\* before parse, the path held a working copy whose origin is the URL
SameRemoteAtPath ==
    /\ fs0.kind = "git"
    /\ fs0.origin # << >>
    /\ WithoutDotGit(fs0.origin) = WithoutDotGit(URL)

\* before parse, the path held something that is not a working copy of the
\* URL: another origin, an origin that cannot be read, or no working copy
ForeignContentAtPath ==
    \/ fs0.kind = "nongit"
    \/ fs0.kind = "git" /\ fs0.origin = << >>
    \/ fs0.kind = "git" /\ fs0.origin # << >>
         /\ WithoutDotGit(fs0.origin) # WithoutDotGit(URL)

\* before parse, the path did not exist or was an empty directory
NothingAtPath == fs0.kind \in {"absent", "blocked", "empty"}

----------------------------------------------------------------------------
(* C1: the external commands of two different Pull calls never overlap:    *)
(* at most one goroutine is in Pull, it holds the lock from the start of   *)
(* the call to its return, and so through every command it issues.         *)
C1_PullsNeverOverlap ==
    /\ \A p, q \in PullProcs : (InPull(p) /\ InPull(q)) => p = q
    /\ \A p \in PullProcs : InPull(p) <=> mutex = p

\* a Pull has a command in flight while the service routine and the other
\* callers are there to call Pull
C1_Witness ==
    /\ Running("manual")
    /\ mutex = "manual"
    /\ service
    /\ th["eager"].pc = "idle"
    /\ spc = "started"

(* C2: a Pull call that starts less than 5 seconds after another Pull call *)
(* on the repository started returns nil and issues no command.  Stated    *)
(* for the calls that take the lock at the very instant at which the       *)
(* latest call that made attempts took it, that call having returned nil.  *)
C2_SecondPullWithinWindowIsNoOp ==
    \A p \in PullProcs :
        (InPull(p) /\ th[p].afterOK) =>
            (Returning(p) /\ th[p].res = "nil" /\ ~Ran(p))

C4_UnchangedTagSecondPullIsNoOp ==
    \A p \in PullProcs :
        (tagMode /\ Returning(p) /\ Ran(p) /\ th[p].res = "nil"
                 /\ tagSteady /\ ~th[p].afterOK) =>
            /\ "checkout" \notin th[p].cmds
            /\ r.latestTag = th[p].snap[4]
            /\ r.lastCommit = th[p].snap[3]

(* C5: in tag mode, a Pull call that makes attempts while the remote has   *)
(* no tags returns an error.                                               *)
C5_NoTagsPullErrors ==
    \A p \in PullProcs :
        (tagMode /\ Returning(p) /\ Ran(p) /\ remoteTag = 0) => th[p].res = "err"

(* C6: when the path holds a working copy whose origin is the URL (one     *)
(* trailing ".git" removed from each), Prepare returns nil and marks the   *)
(* repository pulled, and a Pull call that makes attempts issues a pull    *)
(* (branch mode) or a tag fetch (tag mode) and never a clone.              *)
C6_AdoptedCopyIsPulledNotCloned ==
    (Parsed /\ parseReachesPrepare(URL, Path) /\ SameRemoteAtPath) =>
        /\ ~parseErr
        /\ r.pulled
        /\ fs = fs0
        /\ \A p \in PullProcs :
              Ran(p) => /\ "clone" \notin th[p].cmds
                        /\ tagMode => "fetch" \in th[p].cmds
                        /\ ~tagMode => "pull" \in th[p].cmds

\* the first Pull on an adopted working copy, whose origin has the ".git"
\* the URL lacks, has issued its pull
C6_Witness ==
    /\ SameRemoteAtPath
    /\ fs0.origin # URL
    /\ Returning("eager")
    /\ "pull" \in th["eager"].cmds
    /\ th["eager"].snap[2] = ZeroTime

(* C7: Prepare on a path that holds a working copy of another origin, a    *)
(* working copy whose origin cannot be read, or a non-empty directory that *)
(* is no working copy returns an error, leaves the path as it was and      *)
(* leaves the repository not pulled.                                       *)
C7_PrepareRefusesForeignContent ==
    (Parsed /\ parseReachesPrepare(URL, Path) /\ ForeignContentAtPath) =>
        (parseErr /\ fs = fs0 /\ ~r.pulled)

(* C8, as claimed: Prepare on a path that does not exist or is an empty    *)
(* directory always returns nil, the path is then an empty directory and   *)
(* the repository is not pulled.                                           *)
C8_PrepareAlwaysCreates ==
    (Parsed /\ parseReachesPrepare(URL, Path) /\ NothingAtPath) =>
        (~parseErr /\ fs.kind = "empty" /\ ~r.pulled)

(* C8, amended: Prepare on a path that does not exist or is an empty       *)
(* directory returns what creating the directory returns: nil unless the   *)
(* directory cannot be created, and then the path is an empty directory;   *)
(* an error when it cannot be created, and then the path is as it was; the *)
(* repository is not pulled either way.                                    *)
C8_PrepareCreatesWhenItCan ==
    (Parsed /\ parseReachesPrepare(URL, Path) /\ NothingAtPath) =>
        /\ parseErr <=> fs0.kind = "blocked"
        /\ ~parseErr => fs.kind = "empty"
        /\ parseErr => fs = fs0
        /\ ~r.pulled

\* Prepare has created the directory that did not exist
C8_Witness ==
    /\ Parsed
    /\ fs0.kind = "absent"
    /\ fs.kind = "empty"
    /\ ~parseErr
    /\ prepares = 1

(* C9, as claimed: the service routine is started only after the eager     *)
(* Pull has returned nil, and when the eager Pull fails the startup        *)
(* function returns its error and no service routine is running.           *)
C9_ServiceStartsAfterEagerPull ==
    /\ service => (th["eager"].pc = "done" /\ th["eager"].res = "nil")
    /\ startupErr = "err" => ~service

(* C9, amended: the service routine is started before the eager Pull is    *)
(* called, whatever the eager Pull returns; the startup function returns   *)
(* what the eager Pull returned, and when that is an error the service     *)
(* routine has been started all the same.                                  *)
C9_ServiceStartsBeforeEagerPull ==
    /\ th["eager"].pc # "idle" => service
    /\ spc = "returned" => (th["eager"].pc = "done" /\ startupErr = th["eager"].res)
    /\ startupErr # "none" => (spc = "returned" /\ service)

\* the eager Pull has failed, the startup function has returned its error
\* and the service routine is calling Pull
C9_Witness ==
    /\ startupErr = "err"
    /\ service
    /\ InPull("tick")

(* C10: Prepare runs once, and returns nil, before any Pull on the         *)
(* repository is called; when the URL or the path is missing or Prepare    *)
(* fails, parse returns an error and no list, and neither the startup      *)
(* function nor the service routine nor any Pull ever runs.                *)
C10_PrepareOnceBeforeAnyPull ==
    /\ prepares <= 1
    /\ (service \/ spc \notin {"init", "failed"} \/ \E p \in PullProcs : th[p].pc # "idle")
          => (prepares = 1 /\ ~Prepare(URL, fs0, FALSE).err /\ ~parseErr /\ git # << >>)
    /\ (Parsed /\ (URL = EmptyString \/ Path = "" \/ Prepare(URL, fs0, FALSE).err))
          => /\ parseErr
             /\ git = << >>
             /\ spc = "failed"
             /\ ~service
             /\ \A p \in PullProcs : th[p].pc = "idle"
             /\ co = "idle"

\* a Pull is under way after the one Prepare
C10_Witness ==
    /\ prepares = 1
    /\ Running("eager")
    /\ ~parseErr

(* C11: at any instant at most one external command is in flight for the   *)
(* repository, counting the commands of every Pull call and the checkout   *)
(* of checkoutCommit.                                                      *)
C11_OneInvocationAtATime ==
    Cardinality({p \in PullProcs : Running(p)})
        + (IF co = "checkout" THEN 1 ELSE 0) <= 1

\* the attempt goroutine p is in has written lastPull: its clone or its
\* git pull has succeeded
WroteLastPull(p) ==
    /\ Running(p)
    /\ \/ th[p].inClone /\ th[p].pc # "clone"
       \/ th[p].fn = "pull" /\ th[p].pc = "log"

\* this step ends an attempt of goroutine p with an error: Pull retries or
\* returns the error
AttemptFails(p) ==
    /\ Running(p)
    /\ \/ th'[p].i = th[p].i + 1
       \/ th'[p].pc = "ret" /\ th'[p].res = "err"

(* C12: lastPull changes only in the step at which a clone or a git pull   *)
(* succeeds, it never decreases, and the attempt in which it was written   *)
(* never returns an error; no other step (a failed command, a debounced    *)
(* call, Prepare, checkoutCommit) changes it.                              *)
C12_LastPullOnlyAdvancesOnSuccess ==
    [][ /\ r'.lastPull # r.lastPull =>
             /\ r'.lastPull > r.lastPull
             /\ \E p \in PullProcs :
                   th[p].pc \in {"clone", "pull"} /\ th'[p].pc = "log"
        /\ \A p \in PullProcs : AttemptFails(p) => ~WroteLastPull(p) ]_vars

\* a Pull that found lastPull set, a window or more ago, has failed and
\* lastPull is what it was
C12_Witness ==
    \E p \in PullProcs :
        /\ Returning(p)
        /\ th[p].res = "err"
        /\ th[p].snap[2] # ZeroTime
        /\ r.lastPull = th[p].snap[2]
        /\ r.lastPull < now

\* the places in the block of the directives named n
Named(n) == {k \in 1..Len(block.dirs) : block.dirs[k].name = n}

\* the block gives the URL as its argument, one path directive with an
\* absolute path and one args directive, and besides them only interval
\* and branch directives
GivesURLPathArgs ==
    /\ block.args = << <<"a">> >>
    /\ Cardinality(Named("path")) = 1
    /\ \A k \in Named("path") :
          block.dirs[k].vals # << >> /\ block.dirs[k].vals[1].abs
    /\ Cardinality(Named("args")) = 1
    /\ \A k \in 1..Len(block.dirs) :
          block.dirs[k].name \in {"path", "args", "interval", "branch"}

\* the interval values that are not a positive number
NotAPositiveNumber == { <<"0">>, <<"-", "5">>, <<"x">>, <<"1", "h">> }

C15_LockAlwaysReleased ==
    /\ [](\A p \in PullProcs : ~InPull(p) => mutex # p)
    /\ \A p \in PullProcs : (mutex = p) ~> (mutex = NoOne)
    /\ (spc = "started") ~> (spc = "pulling")
    /\ (spc = "pulling") ~> (th["eager"].pc = "done" /\ mutex # "eager")

\* the startup function's Pull has returned an error and the service
\* routine's Pull holds the lock, a command in flight
C15_Witness ==
    /\ th["eager"].pc = "done"
    /\ th["eager"].res = "err"
    /\ mutex = "tick"
    /\ Running("tick")

(* C16: a Pull that takes the lock less than a debounce window after the   *)
(* recorded lastPull returns nil, issues no command and leaves pulled,     *)
(* lastPull, lastCommit and latestTag as they were; a Pull that finds      *)
(* lastPull never set is never debounced, and neither is one that comes a  *)
(* window or more after lastPull.                                          *)
C16_DebouncedPullIsNoOp ==
    \A p \in PullProcs :
        /\ (InPull(p) /\ th[p].snap[2] = ZeroTime) => Ran(p)
        /\ (InPull(p) /\ th[p].instant /\ th[p].snap[2] # ZeroTime) =>
              (now - th[p].snap[2] < DebounceWindow <=> ~Ran(p))
        /\ (InPull(p) /\ ~Ran(p)) =>
              /\ Returning(p)
              /\ th[p].res = "nil"
              /\ Snapshot(r) = th[p].snap

\* a Pull on a pulled repository with a recorded commit has been debounced
C16_Witness ==
    \E p \in PullProcs :
        /\ Returning(p)
        /\ ~Ran(p)
        /\ th[p].snap[1]
        /\ th[p].snap[3] # EmptyString
        /\ now - th[p].snap[2] < DebounceWindow

(* C17: a Pull on a repository that is not pulled issues a clone; when it  *)
(* returns nil after a clone the repository is pulled, lastPull is set and *)
(* lastCommit is the commit the working copy has checked out; in tag mode  *)
(* the latest tag has been checked out in the same call, and latestTag is  *)
(* that tag.                                                               *)
C17_CloneRecordsCommitAndTag ==
    \A p \in PullProcs :
        /\ (InPull(p) /\ ~th[p].snap[1]) => "clone" \in th[p].cmds
        /\ (Returning(p) /\ th[p].res = "nil" /\ "clone" \in th[p].cmds) =>
              /\ r.pulled
              /\ r.lastPull # ZeroTime
              /\ r.lastCommit = Hash(wcHead)
              /\ tagMode => /\ "checkout" \in th[p].cmds
                            /\ r.latestTag # EmptyString
                            /\ r.latestTag = TagName(localTag)

\* in this step the `git log` of mostRecentCommit, called by pull() or
\* clone() for goroutine p, ends in failure: it gives no hash
CommitReadFails(p) ==
    /\ th[p].pc = "log"
    /\ th[p].fn \in {"pull", "clone"}
    /\ th'[p].pc # "log"
    /\ r'.lastCommit = EmptyString

\* the err that pull() or clone() holds for goroutine p after the step:
\* clone()'s own err when it goes on to the tag, else what the attempt
\* returns to Pull
CommitReadErr(p) ==
    IF th[p].fn = "clone" /\ tagMode THEN th'[p].cloneErr ELSE th'[p].err

(* C18: runCmdOutput returns an error whenever its command fails, so its   *)
(* callers see every failure as an error: when the `git log` that reads    *)
(* the commit hash after a git pull or a git clone fails, pull() and       *)
(* clone() hold an error.                                                  *)
C18_OutputRunnerReportsFailure ==
    [][\A p \in PullProcs : CommitReadFails(p) => CommitReadErr(p)]_vars

(* C19: once the repository is pulled, by Prepare adopting the working     *)
(* copy or by a successful clone, it stays pulled and no clone is issued   *)
(* for it: no step unsets pulled, and no Pull issues a clone or has one in *)
(* flight while pulled is set, whatever Pulls succeeded or failed and      *)
(* whatever checkoutCommit did before.                                     *)
C19_PulledStaysNoCloneAgain ==
    [][ r.pulled =>
          /\ r'.pulled
          /\ \A p \in PullProcs :
                /\ th[p].pc # "clone"
                /\ th'[p].pc # "clone"
                /\ "clone" \in th'[p].cmds => "clone" \in th[p].cmds ]_vars

\* on a repository that a clone made pulled, a later Pull has failed after
\* a manual checkout moved the working copy, and the repository is pulled
C19_Witness ==
    \E p \in PullProcs :
        /\ fs0.kind = "empty"
        /\ Returning(p)
        /\ th[p].res = "err"
        /\ th[p].snap[1]
        /\ "clone" \notin th[p].cmds
        /\ wcHead # remoteHead
        /\ r.pulled

(* C20: when a Pull that made attempts returns nil, lastCommit is the      *)
(* commit the working copy has checked out, in branch mode and in tag      *)
(* mode, and also after a checkoutCommit between two Pulls.                *)
C20_RecordedCommitIsHead ==
    \A p \in PullProcs :
        (Returning(p) /\ Ran(p) /\ th[p].res = "nil" /\ co = "idle") =>
            r.lastCommit = Hash(wcHead)

====
